---- MODULE Spec2Model ----
(***************************************************************************)
(* Model of the Pinia store useItemTransactionStore                        *)
(* (src/src/stores/itemTransactionStore.ts).                                *)
(*                                                                         *)
(* The store runs on a single-threaded event loop.  A synchronous action   *)
(* is one atomic step.  An async action is two steps: the part up to the   *)
(* `await api...` (the Call step) and the continuation that runs when the  *)
(* request settles (Success, Other status or Rejected, then finally).      *)
(* pending counts the suspended calls of each kind; result is what the     *)
(* caller of the last finished action observed (returned or thrown).       *)
(* Optional values (undefined / null) are sequences of length 0 or 1.      *)
(***************************************************************************)
EXTENDS Integers, Sequences, FiniteSets, TLC

VARIABLES loading, list, pagination, transactions, warehouses, customers,
          selectedItems, transactionForm, pending, result

vars == <<loading, list, pagination, transactions, warehouses, customers,
          selectedItems, transactionForm, pending, result>>

\* the refs the store returns, i.e. the store state proper
storeState == <<loading, list, pagination, transactions, warehouses, customers,
                selectedItems, transactionForm>>

-----------------------------------------------------------------------------
\* Bounds of the model
MaxQuantity == 2
MaxPrice == 1
MaxInFlight == 2
MaxTransactions == 2

ItemIds == {1, 2}

\* undefined / null
Missing == <<>>

\* the products offered to addSelectedItem: without prices, with a positive,
\* a zero and a negative solo price
Products ==
    { [id |-> 1, solo_unit_price |-> Missing, bulk_unit_price |-> Missing],
      [id |-> 1, solo_unit_price |-> <<2>>, bulk_unit_price |-> <<1>>],
      [id |-> 2, solo_unit_price |-> <<0>>, bulk_unit_price |-> <<1>>],
      [id |-> 2, solo_unit_price |-> <<0 - 1>>, bulk_unit_price |-> <<0>>] }

QuantityInputs == (0 - 1) .. MaxQuantity
PriceInputs == (0 - 1) .. MaxPrice
ItemIdInputs == ItemIds \cup {3}

\* ApiResponse.status values other than 'success'
OtherStatuses == {"error"}

SingleRecords == { <<"tx1">> }
BranchIdInputs == {Missing, <<0>>, <<1>>}
WarehouseLists == { <<"w1", "w2">> }
CustomerLists == { << [id |-> 1, type |-> "supplier"], [id |-> 2, type |-> "customer"] >> }

\* page p of the transaction list, and the paging metadata the server sends with it
ListPage(p) == << [id |-> 10 * p, page |-> p] >>
PaginationOf(p) == [current_page |-> p, per_page |-> 1]

\* successful list responses: one whose envelope carries the pagination and
\* one whose envelope has none
ListResponses ==
    { [data |-> ListPage(1), pagination |-> <<PaginationOf(1)>>],
      [data |-> ListPage(2), pagination |-> Missing] }

\* response.data.data of the item search: absent, a plain array, or a warehouse
\* object whose items are absent, an array, a keyed map or a non-object
SearchPayloads ==
    { [kind |-> "absent", rows |-> <<>>, items |-> <<>>],
      [kind |-> "array", rows |-> <<"i1", "i2">>, items |-> <<>>],
      [kind |-> "warehouse-noitems", rows |-> <<"wh">>, items |-> <<>>],
      [kind |-> "warehouse-array", rows |-> <<"wh">>, items |-> <<"i1", "i2">>],
      [kind |-> "warehouse-map", rows |-> <<"wh">>, items |-> [k \in {1, 2} |-> IF k = 1 THEN "i7" ELSE "i9"]],
      [kind |-> "warehouse-scalar", rows |-> <<"wh">>, items |-> <<"x">>] }

-----------------------------------------------------------------------------
\* JavaScript `x || 0` on an optional number: undefined, null, NaN and 0 give 0
OrZero(x) == IF x = Missing THEN 0 ELSE IF x[1] = 0 THEN 0 ELSE x[1]

\* Array.prototype.findIndex(si => si.item_id === itemId), 1-based; 0 for -1
FindIndex(items, itemId) ==
    IF \E i \in 1..Len(items) : items[i].item_id = itemId
    THEN CHOOSE i \in 1..Len(items) :
            /\ items[i].item_id = itemId
            /\ \A j \in 1..(i - 1) : items[j].item_id # itemId
    ELSE 0

\* Array.prototype.splice(index, 1)
Splice(items, index) ==
    [i \in 1..(Len(items) - 1) |-> IF i < index THEN items[i] ELSE items[i + 1]]

\* variant: the unit price is seeded from the bulk price
NewEntryBulkPrice(item) ==
    [item_id |-> item.id,
     item |-> item,
     quantity |-> 1,
     unit_price |-> OrZero(item.bulk_unit_price),
     solo_unit_price |-> OrZero(item.solo_unit_price),
     bulk_unit_price |-> OrZero(item.bulk_unit_price)]

NewEntry(item) ==
    [item_id |-> item.id,
     item |-> item,
     quantity |-> 1,
     unit_price |-> OrZero(item.solo_unit_price),
     solo_unit_price |-> OrZero(item.solo_unit_price),
     bulk_unit_price |-> OrZero(item.bulk_unit_price)]

DefaultForm ==
    [customer_id |-> Missing, warehouse_id |-> Missing,
     payment_type |-> "cash", note |-> "", details |-> <<>>]

\* a draft as the page components write it into the exposed transactionForm
FilledForm ==
    [customer_id |-> <<7>>, warehouse_id |-> <<3>>,
     payment_type |-> "borrow", note |-> "n",
     details |-> << [item_id |-> 1, quantity |-> 1, unit_price |-> 2,
                     solo_unit_price |-> 2, bulk_unit_price |-> 1] >>]

FormValues == {DefaultForm, FilledForm}

\* a returned value: undefined, or a list of opaque payload rows
Undefined == [defined |-> FALSE, rows |-> <<>>]
Value(rows) == [defined |-> TRUE, rows |-> rows]

NoResult == [op |-> "none", response |-> "none", outcome |-> "none", value |-> Undefined]

\* what the caller of a finished action observed
Outcome(o, r, oc, v) == [op |-> o, response |-> r, outcome |-> oc, value |-> v]

\* the calls that can be awaiting a response; sell is the search variant
\* `transactionType === 'sell' && warehouseId`
RequestOps == {"fetchBranchWarehouses", "fetchCustomers", "fetchTransactionList",
               "fetchSingleTransaction", "createTransaction", "paySupplier",
               "receiveFromCustomer", "refundTransaction", "feedingTransaction"}
Call(op, sell) == IF sell THEN "searchItems(sell)" ELSE op
Calls == { Call(o, FALSE) : o \in RequestOps \cup {"searchItems"} }
           \cup { Call("searchItems", TRUE) }

\* number of suspended calls of one kind
Awaiting(op, sell) == pending[Call(op, sell)]

\* number of calls suspended at their await
InFlight ==
    Awaiting("fetchBranchWarehouses", FALSE) + Awaiting("fetchCustomers", FALSE)
    + Awaiting("fetchTransactionList", FALSE) + Awaiting("fetchSingleTransaction", FALSE)
    + Awaiting("createTransaction", FALSE) + Awaiting("paySupplier", FALSE)
    + Awaiting("receiveFromCustomer", FALSE) + Awaiting("refundTransaction", FALSE)
    + Awaiting("feedingTransaction", FALSE)
    + Awaiting("searchItems", FALSE) + Awaiting("searchItems", TRUE)

\* the part of every async action before its await: loading.value = true,
\* then the request is issued and the action suspends
Suspend(op, sell) ==
    /\ InFlight < MaxInFlight
    /\ pending' = [pending EXCEPT ![Call(op, sell)] = @ + 1]
    /\ loading' = TRUE

\* the request of one suspended call settles and its continuation runs
Settle(op, sell) ==
    /\ Awaiting(op, sell) > 0
    /\ pending' = [pending EXCEPT ![Call(op, sell)] = @ - 1]

-----------------------------------------------------------------------------
Init ==
    /\ loading = FALSE
    /\ list = <<>>
    /\ pagination = Missing
    /\ transactions = <<>>
    /\ warehouses = <<>>
    /\ customers = <<>>
    /\ selectedItems = <<>>
    /\ transactionForm = DefaultForm
    /\ pending = [c \in Calls |-> 0]
    /\ result = NoResult

-----------------------------------------------------------------------------
\* Synchronous actions on the selection and the form

\* variant: no lookup of an existing entry, every add pushes (at most two
\* entries, to keep the selection finite)
addSelectedItemAlwaysPush(item) ==
    /\ selectedItems' = Append(selectedItems, NewEntry(item))
    /\ Len(selectedItems) < 2
    /\ result' = Outcome("addSelectedItem", "none", "returned", Undefined)
    /\ UNCHANGED <<loading, list, pagination, transactions, warehouses,
                   customers, transactionForm, pending>>

addSelectedItem(item) ==
    LET existingIndex == FindIndex(selectedItems, item.id) IN
    /\ IF existingIndex >= 1
       THEN /\ selectedItems[existingIndex].quantity < MaxQuantity
            /\ selectedItems' = [selectedItems EXCEPT
                   ![existingIndex].quantity = @ + 1]
       ELSE selectedItems' = Append(selectedItems, NewEntry(item))
    /\ result' = Outcome("addSelectedItem", "none", "returned", Undefined)
    /\ UNCHANGED <<loading, list, pagination, transactions, warehouses,
                   customers, transactionForm, pending>>

removeSelectedItem(itemId) ==
    LET index == FindIndex(selectedItems, itemId) IN
    /\ selectedItems' = IF index >= 1 THEN Splice(selectedItems, index)
                        ELSE selectedItems
    /\ result' = Outcome("removeSelectedItem", "none", "returned", Undefined)
    /\ UNCHANGED <<loading, list, pagination, transactions, warehouses,
                   customers, transactionForm, pending>>

\* variant: the guard is quantity >= 0
updateSelectedItemQuantityNonNegative(itemId, quantity) ==
    LET index == FindIndex(selectedItems, itemId) IN
    /\ selectedItems' = IF index >= 1 /\ quantity >= 0
                        THEN [selectedItems EXCEPT ![index].quantity = quantity]
                        ELSE selectedItems
    /\ result' = Outcome("updateSelectedItemQuantity", "none", "returned", Undefined)
    /\ UNCHANGED <<loading, list, pagination, transactions, warehouses,
                   customers, transactionForm, pending>>

updateSelectedItemQuantity(itemId, quantity) ==
    LET index == FindIndex(selectedItems, itemId) IN
    /\ selectedItems' = IF index >= 1 /\ quantity > 0
                        THEN [selectedItems EXCEPT ![index].quantity = quantity]
                        ELSE selectedItems
    /\ result' = Outcome("updateSelectedItemQuantity", "none", "returned", Undefined)
    /\ UNCHANGED <<loading, list, pagination, transactions, warehouses,
                   customers, transactionForm, pending>>

updateSelectedItemPrice(itemId, price) ==
    LET index == FindIndex(selectedItems, itemId) IN
    /\ selectedItems' = IF index >= 1 /\ price >= 0
                        THEN [selectedItems EXCEPT ![index].unit_price = price]
                        ELSE selectedItems
    /\ result' = Outcome("updateSelectedItemPrice", "none", "returned", Undefined)
    /\ UNCHANGED <<loading, list, pagination, transactions, warehouses,
                   customers, transactionForm, pending>>

\* the two assignments of resetForm
ResetFormEffect ==
    /\ transactionForm' = DefaultForm
    /\ selectedItems' = <<>>

resetForm ==
    /\ ResetFormEffect
    /\ result' = Outcome("resetForm", "none", "returned", Undefined)
    /\ UNCHANGED <<loading, list, pagination, transactions, warehouses,
                   customers, pending>>

\* a component writes the draft into the exposed transactionForm ref
editTransactionForm(form) ==
    /\ transactionForm # form
    /\ transactionForm' = form
    /\ UNCHANGED <<loading, list, pagination, transactions, warehouses,
                   customers, selectedItems, pending, result>>

-----------------------------------------------------------------------------
\* fetchBranchWarehouses

\* `!branchId`: undefined and 0 are both falsy
NoBranch(branchId) == IF branchId = Missing THEN TRUE ELSE branchId[1] = 0

\* no branch id: warn, empty the list, return; finally runs in the same step
fetchBranchWarehousesEmpty(branchId) ==
    /\ NoBranch(branchId)
    /\ warehouses' = <<>>
    /\ loading' = FALSE
    /\ result' = Outcome("fetchBranchWarehouses", "none", "returned", Undefined)
    /\ UNCHANGED <<list, pagination, transactions, customers, selectedItems,
                   transactionForm, pending>>

fetchBranchWarehousesCall(branchId) ==
    /\ ~NoBranch(branchId)
    /\ Suspend("fetchBranchWarehouses", FALSE)
    /\ UNCHANGED <<list, pagination, transactions, warehouses, customers,
                   selectedItems, transactionForm, result>>

fetchBranchWarehousesSuccess(data) ==
    /\ Settle("fetchBranchWarehouses", FALSE)
    /\ warehouses' = data
    /\ loading' = FALSE
    /\ result' = Outcome("fetchBranchWarehouses", "success", "returned", Undefined)
    /\ UNCHANGED <<list, pagination, transactions, customers, selectedItems,
                   transactionForm>>

fetchBranchWarehousesOther(status) ==
    /\ Settle("fetchBranchWarehouses", FALSE)
    /\ warehouses' = <<>>
    /\ loading' = FALSE
    /\ result' = Outcome("fetchBranchWarehouses", status, "returned", Undefined)
    /\ UNCHANGED <<list, pagination, transactions, customers, selectedItems,
                   transactionForm>>

fetchBranchWarehousesRejected ==
    /\ Settle("fetchBranchWarehouses", FALSE)
    /\ warehouses' = <<>>
    /\ loading' = FALSE
    /\ result' = Outcome("fetchBranchWarehouses", "rejected", "returned", Undefined)
    /\ UNCHANGED <<list, pagination, transactions, customers, selectedItems,
                   transactionForm>>

-----------------------------------------------------------------------------
\* fetchCustomers

fetchCustomersCall ==
    /\ Suspend("fetchCustomers", FALSE)
    /\ UNCHANGED <<list, pagination, transactions, warehouses, customers,
                   selectedItems, transactionForm, result>>

\* variant: loading is kept while other calls are in flight
fetchCustomersSuccessCounted(data) ==
    /\ Settle("fetchCustomers", FALSE)
    /\ customers' = data
    /\ loading' = (InFlight > 1)
    /\ result' = Outcome("fetchCustomers", "success", "returned", Undefined)
    /\ UNCHANGED <<list, pagination, transactions, warehouses, selectedItems,
                   transactionForm>>

fetchCustomersSuccess(data) ==
    /\ Settle("fetchCustomers", FALSE)
    /\ customers' = data
    /\ loading' = FALSE
    /\ result' = Outcome("fetchCustomers", "success", "returned", Undefined)
    /\ UNCHANGED <<list, pagination, transactions, warehouses, selectedItems,
                   transactionForm>>

fetchCustomersOther(status) ==
    /\ Settle("fetchCustomers", FALSE)
    /\ loading' = FALSE
    /\ result' = Outcome("fetchCustomers", status, "returned", Undefined)
    /\ UNCHANGED <<list, pagination, transactions, warehouses, customers,
                   selectedItems, transactionForm>>

\* catch: console.error only
fetchCustomersRejected ==
    /\ Settle("fetchCustomers", FALSE)
    /\ loading' = FALSE
    /\ result' = Outcome("fetchCustomers", "rejected", "returned", Undefined)
    /\ UNCHANGED <<list, pagination, transactions, warehouses, customers,
                   selectedItems, transactionForm>>

-----------------------------------------------------------------------------
\* fetchTransactionList

fetchTransactionListCall ==
    /\ Suspend("fetchTransactionList", FALSE)
    /\ UNCHANGED <<list, pagination, transactions, warehouses, customers,
                   selectedItems, transactionForm, result>>

fetchTransactionListSuccess(response) ==
    /\ Settle("fetchTransactionList", FALSE)
    /\ list' = response.data
    /\ pagination' = IF response.pagination # Missing
                     THEN response.pagination
                     ELSE pagination
    /\ loading' = FALSE
    /\ result' = Outcome("fetchTransactionList", "success", "returned", Undefined)
    /\ UNCHANGED <<transactions, warehouses, customers, selectedItems,
                   transactionForm>>

fetchTransactionListOther(status) ==
    /\ Settle("fetchTransactionList", FALSE)
    /\ loading' = FALSE
    /\ result' = Outcome("fetchTransactionList", status, "returned", Undefined)
    /\ UNCHANGED <<list, pagination, transactions, warehouses, customers,
                   selectedItems, transactionForm>>

\* catch: console.error only
fetchTransactionListRejected ==
    /\ Settle("fetchTransactionList", FALSE)
    /\ loading' = FALSE
    /\ result' = Outcome("fetchTransactionList", "rejected", "returned", Undefined)
    /\ UNCHANGED <<list, pagination, transactions, warehouses, customers,
                   selectedItems, transactionForm>>

-----------------------------------------------------------------------------
\* fetchSingleTransaction

fetchSingleTransactionCall ==
    /\ Suspend("fetchSingleTransaction", FALSE)
    /\ UNCHANGED <<list, pagination, transactions, warehouses, customers,
                   selectedItems, transactionForm, result>>

fetchSingleTransactionSuccess(data) ==
    /\ Settle("fetchSingleTransaction", FALSE)
    /\ loading' = FALSE
    /\ result' = Outcome("fetchSingleTransaction", "success", "returned", Value(data))
    /\ UNCHANGED <<list, pagination, transactions, warehouses, customers,
                   selectedItems, transactionForm>>

\* the try body falls through: the promise resolves to undefined
fetchSingleTransactionOther(status) ==
    /\ Settle("fetchSingleTransaction", FALSE)
    /\ loading' = FALSE
    /\ result' = Outcome("fetchSingleTransaction", status, "returned", Undefined)
    /\ UNCHANGED <<list, pagination, transactions, warehouses, customers,
                   selectedItems, transactionForm>>

fetchSingleTransactionRejected ==
    /\ Settle("fetchSingleTransaction", FALSE)
    /\ loading' = FALSE
    /\ result' = Outcome("fetchSingleTransaction", "rejected", "thrown", Undefined)
    /\ UNCHANGED <<list, pagination, transactions, warehouses, customers,
                   selectedItems, transactionForm>>

-----------------------------------------------------------------------------
\* createTransaction

PendingCreates == Awaiting("createTransaction", FALSE)

createTransactionCall ==
    /\ Len(transactions) + PendingCreates < MaxTransactions
    /\ Suspend("createTransaction", FALSE)
    /\ UNCHANGED <<list, pagination, transactions, warehouses, customers,
                   selectedItems, transactionForm, result>>

\* the record the server returns for a create: it carries a fresh id
PurchaseResponses == { [id |-> Len(transactions) + 1] }

\* variant: push instead of unshift
Push(records, record) == records \o <<record>>

\* transactions.value.unshift(record)
Unshift(records, record) == <<record>> \o records

createTransactionSuccess(data) ==
    /\ Settle("createTransaction", FALSE)
    /\ transactions' = Unshift(transactions, data)
    /\ ResetFormEffect
    /\ loading' = FALSE
    /\ result' = Outcome("createTransaction", "success", "returned", Value(<<data>>))
    /\ UNCHANGED <<list, pagination, warehouses, customers>>

createTransactionOther(status) ==
    /\ Settle("createTransaction", FALSE)
    /\ loading' = FALSE
    /\ result' = Outcome("createTransaction", status, "returned", Undefined)
    /\ UNCHANGED <<list, pagination, transactions, warehouses, customers,
                   selectedItems, transactionForm>>

\* variant: the draft is reset on the failure path too
createTransactionRejectedResets ==
    /\ Settle("createTransaction", FALSE)
    /\ ResetFormEffect
    /\ loading' = FALSE
    /\ result' = Outcome("createTransaction", "rejected", "thrown", Undefined)
    /\ UNCHANGED <<list, pagination, transactions, warehouses, customers>>

\* catch: console.error, throw error
createTransactionRejected ==
    /\ Settle("createTransaction", FALSE)
    /\ loading' = FALSE
    /\ result' = Outcome("createTransaction", "rejected", "thrown", Undefined)
    /\ UNCHANGED <<list, pagination, transactions, warehouses, customers,
                   selectedItems, transactionForm>>

-----------------------------------------------------------------------------
\* paySupplier, receiveFromCustomer, refundTransaction, feedingTransaction:
\* post or put, return response.data on success, rethrow on rejection

PostOps == {"paySupplier", "receiveFromCustomer", "refundTransaction", "feedingTransaction"}

PostCall(op) ==
    /\ Suspend(op, FALSE)
    /\ UNCHANGED <<list, pagination, transactions, warehouses, customers,
                   selectedItems, transactionForm, result>>

PostSuccess(op) ==
    /\ Settle(op, FALSE)
    /\ loading' = FALSE
    /\ result' = Outcome(op, "success", "returned", Value(<<"ok">>))
    /\ UNCHANGED <<list, pagination, transactions, warehouses, customers,
                   selectedItems, transactionForm>>

PostOther(op, status) ==
    /\ Settle(op, FALSE)
    /\ loading' = FALSE
    /\ result' = Outcome(op, status, "returned", Undefined)
    /\ UNCHANGED <<list, pagination, transactions, warehouses, customers,
                   selectedItems, transactionForm>>

PostRejected(op) ==
    /\ Settle(op, FALSE)
    /\ loading' = FALSE
    /\ result' = Outcome(op, "rejected", "thrown", Undefined)
    /\ UNCHANGED <<list, pagination, transactions, warehouses, customers,
                   selectedItems, transactionForm>>

paySupplierCall == PostCall("paySupplier")
paySupplierSuccess == PostSuccess("paySupplier")
paySupplierOther(status) == PostOther("paySupplier", status)
paySupplierRejected == PostRejected("paySupplier")

receiveFromCustomerCall == PostCall("receiveFromCustomer")
receiveFromCustomerSuccess == PostSuccess("receiveFromCustomer")
receiveFromCustomerOther(status) == PostOther("receiveFromCustomer", status)
receiveFromCustomerRejected == PostRejected("receiveFromCustomer")

refundTransactionCall == PostCall("refundTransaction")
refundTransactionSuccess == PostSuccess("refundTransaction")
refundTransactionOther(status) == PostOther("refundTransaction", status)
refundTransactionRejected == PostRejected("refundTransaction")

feedingTransactionCall == PostCall("feedingTransaction")
feedingTransactionSuccess == PostSuccess("feedingTransaction")
feedingTransactionOther(status) == PostOther("feedingTransaction", status)
feedingTransactionRejected == PostRejected("feedingTransaction")

-----------------------------------------------------------------------------
\* searchItems

\* Object.values of a keyed map, in ascending key order
RECURSIVE ObjectValues(_, _)
ObjectValues(map, keys) ==
    IF keys = {} THEN <<>>
    ELSE LET k == CHOOSE x \in keys : \A y \in keys : x <= y
         IN <<map[k]>> \o ObjectValues(map, keys \ {k})

\* the value searchItems returns for a success response
SearchReturn(sell, data) ==
    IF sell /\ data.kind \in {"warehouse-array", "warehouse-map", "warehouse-scalar"}
    THEN IF data.kind = "warehouse-array" THEN data.items
         ELSE IF data.kind = "warehouse-map"
              THEN ObjectValues(data.items, DOMAIN data.items)
              ELSE <<>>
    ELSE IF data.kind = "absent" THEN <<>> ELSE data.rows

\* sell is `transactionType === 'sell' && warehouseId`
searchItemsCall(sell) ==
    /\ Suspend("searchItems", sell)
    /\ UNCHANGED <<list, pagination, transactions, warehouses, customers,
                   selectedItems, transactionForm, result>>

searchItemsSuccess(sell, data) ==
    /\ Settle("searchItems", sell)
    /\ loading' = FALSE
    /\ result' = Outcome("searchItems", "success", "returned",
                         Value(SearchReturn(sell, data)))
    /\ UNCHANGED <<list, pagination, transactions, warehouses, customers,
                   selectedItems, transactionForm>>

searchItemsOther(sell, status) ==
    /\ Settle("searchItems", sell)
    /\ loading' = FALSE
    /\ result' = Outcome("searchItems", status, "returned", Value(<<>>))
    /\ UNCHANGED <<list, pagination, transactions, warehouses, customers,
                   selectedItems, transactionForm>>

\* variant: the rethrow leaves without the finally block
searchItemsRejectedNoFinally(sell) ==
    /\ Settle("searchItems", sell)
    /\ result' = Outcome("searchItems", "rejected", "thrown", Undefined)
    /\ UNCHANGED <<loading, list, pagination, transactions, warehouses, customers,
                   selectedItems, transactionForm>>

searchItemsRejected(sell) ==
    /\ Settle("searchItems", sell)
    /\ loading' = FALSE
    /\ result' = Outcome("searchItems", "rejected", "thrown", Undefined)
    /\ UNCHANGED <<list, pagination, transactions, warehouses, customers,
                   selectedItems, transactionForm>>

-----------------------------------------------------------------------------
\* The selection and the draft: the synchronous actions and createTransaction
SelectionNext ==
    \/ \E item \in Products : addSelectedItem(item)
    \/ \E itemId \in ItemIdInputs : removeSelectedItem(itemId)
    \/ \E itemId \in ItemIdInputs, quantity \in QuantityInputs :
          updateSelectedItemQuantity(itemId, quantity)
    \/ \E itemId \in ItemIdInputs, price \in PriceInputs :
          updateSelectedItemPrice(itemId, price)
    \/ resetForm
    \/ \E form \in FormValues : editTransactionForm(form)
    \/ createTransactionCall
    \/ \E data \in PurchaseResponses : createTransactionSuccess(data)
    \/ \E status \in OtherStatuses : createTransactionOther(status)
    \/ createTransactionRejected

\* The read operations that store what they fetch
FetchNext ==
    \/ \E branchId \in BranchIdInputs : fetchBranchWarehousesEmpty(branchId)
    \/ \E branchId \in BranchIdInputs : fetchBranchWarehousesCall(branchId)
    \/ \E data \in WarehouseLists : fetchBranchWarehousesSuccess(data)
    \/ \E status \in OtherStatuses : fetchBranchWarehousesOther(status)
    \/ fetchBranchWarehousesRejected
    \/ fetchCustomersCall
    \/ \E data \in CustomerLists : fetchCustomersSuccess(data)
    \/ \E status \in OtherStatuses : fetchCustomersOther(status)
    \/ fetchCustomersRejected
    \/ fetchTransactionListCall
    \/ \E response \in ListResponses : fetchTransactionListSuccess(response)
    \/ \E status \in OtherStatuses : fetchTransactionListOther(status)
    \/ fetchTransactionListRejected

\* The request-issuing operations that store nothing but the loading flag
PassThroughNext ==
    \/ fetchSingleTransactionCall
    \/ \E data \in SingleRecords : fetchSingleTransactionSuccess(data)
    \/ \E status \in OtherStatuses : fetchSingleTransactionOther(status)
    \/ fetchSingleTransactionRejected
    \/ paySupplierCall
    \/ paySupplierSuccess
    \/ \E status \in OtherStatuses : paySupplierOther(status)
    \/ paySupplierRejected
    \/ receiveFromCustomerCall
    \/ receiveFromCustomerSuccess
    \/ \E status \in OtherStatuses : receiveFromCustomerOther(status)
    \/ receiveFromCustomerRejected
    \/ refundTransactionCall
    \/ refundTransactionSuccess
    \/ \E status \in OtherStatuses : refundTransactionOther(status)
    \/ refundTransactionRejected
    \/ feedingTransactionCall
    \/ feedingTransactionSuccess
    \/ \E status \in OtherStatuses : feedingTransactionOther(status)
    \/ feedingTransactionRejected
    \/ \E sell \in BOOLEAN : searchItemsCall(sell)
    \/ \E sell \in BOOLEAN, data \in SearchPayloads : searchItemsSuccess(sell, data)
    \/ \E sell \in BOOLEAN, status \in OtherStatuses : searchItemsOther(sell, status)
    \/ \E sell \in BOOLEAN : searchItemsRejected(sell)

\* every operation that issues a request
RequestsNext ==
    \/ FetchNext
    \/ PassThroughNext
    \/ createTransactionCall
    \/ \E data \in PurchaseResponses : createTransactionSuccess(data)
    \/ \E status \in OtherStatuses : createTransactionOther(status)
    \/ createTransactionRejected

Next == SelectionNext \/ FetchNext \/ PassThroughNext

Spec == Init /\ [][Next]_vars
SpecSelection == Init /\ [][SelectionNext]_vars
SpecFetch == Init /\ [][FetchNext]_vars
SpecRequests == Init /\ [][RequestsNext]_vars

-----------------------------------------------------------------------------
\* Steps of the behaviour, told apart by what the caller and the queue observe

\* a createTransaction call settles with the given kind of response
CreateSettles(response) ==
    /\ Awaiting("createTransaction", FALSE)' = Awaiting("createTransaction", FALSE) - 1
    /\ result'.op = "createTransaction"
    /\ result'.response = response

UniqueItemIds(items) ==
    \A i \in 1..Len(items) : \A j \in 1..Len(items) :
        i # j => items[i].item_id # items[j].item_id

-----------------------------------------------------------------------------
\* C1: selectedItems never holds two entries with the same item_id, whatever
\* sequence of selection actions, resetForm and createTransaction ran.
C1_UniqueItemIds == UniqueItemIds(selectedItems)

\* two entries are selected and one of them was added a second time
C1_Witness ==
    /\ Len(selectedItems) = 2
    /\ \E i \in 1..2 : selectedItems[i].quantity = 2

\* C2: every entry of selectedItems has quantity > 0 and unit_price >= 0,
\* for every product passed to addSelectedItem and every value passed to the
\* update actions.
C2_QuantityAndPriceInRange ==
    \A i \in 1..Len(selectedItems) :
        selectedItems[i].quantity > 0 /\ selectedItems[i].unit_price >= 0

\* C3: updateSelectedItemQuantity with quantity <= 0, updateSelectedItemPrice
\* with price < 0, and either update with an item id that has no entry, leave
\* every field of the store unchanged and return normally.
C3_RejectedUpdatesChangeNothing ==
    [][ /\ result'.op = "updateSelectedItemQuantity" =>
           \A itemId \in ItemIdInputs : \A quantity \in QuantityInputs :
             ( /\ quantity <= 0 \/ ~(\E i \in 1..Len(selectedItems) :
                                        selectedItems[i].item_id = itemId)
               /\ updateSelectedItemQuantity(itemId, quantity) )
             => (UNCHANGED storeState /\ result'.outcome = "returned")
        /\ result'.op = "updateSelectedItemPrice" =>
           \A itemId \in ItemIdInputs : \A price \in PriceInputs :
             ( /\ price < 0 \/ ~(\E i \in 1..Len(selectedItems) :
                                     selectedItems[i].item_id = itemId)
               /\ updateSelectedItemPrice(itemId, price) )
             => (UNCHANGED storeState /\ result'.outcome = "returned")
      ]_vars

\* a price update was the last action and the one entry still has the negative
\* price it was added with: the update was rejected or named another id
C3_Witness ==
    /\ result.op = "updateSelectedItemPrice"
    /\ Len(selectedItems) = 1
    /\ selectedItems[1].unit_price < 0

\* C4 as stated: an add of a selected item grows that entry's quantity by one
\* and changes nothing else; an add of a new item appends one entry with
\* quantity 1 and unit_price equal to the item's solo price.
C4_AddAsStated ==
    [][ result'.op = "addSelectedItem" => \A item \in Products : addSelectedItem(item) =>
          IF \E i \in 1..Len(selectedItems) : selectedItems[i].item_id = item.id
          THEN /\ Len(selectedItems') = Len(selectedItems)
               /\ \A i \in 1..Len(selectedItems) :
                     IF selectedItems[i].item_id = item.id
                     THEN selectedItems'[i] =
                            [selectedItems[i] EXCEPT !.quantity = selectedItems[i].quantity + 1]
                     ELSE selectedItems'[i] = selectedItems[i]
          ELSE /\ Len(selectedItems') = Len(selectedItems) + 1
               /\ \A i \in 1..Len(selectedItems) : selectedItems'[i] = selectedItems[i]
               /\ selectedItems'[Len(selectedItems')].item_id = item.id
               /\ selectedItems'[Len(selectedItems')].quantity = 1
               /\ <<selectedItems'[Len(selectedItems')].unit_price>> = item.solo_unit_price
      ]_vars

\* C4 amended: as above, but the unit_price of the appended entry is the
\* item's solo price when the item has one and 0 when it has none.
C4_AddSeedsPriceOrZero ==
    [][ result'.op = "addSelectedItem" => \A item \in Products : addSelectedItem(item) =>
          IF \E i \in 1..Len(selectedItems) : selectedItems[i].item_id = item.id
          THEN /\ Len(selectedItems') = Len(selectedItems)
               /\ \A i \in 1..Len(selectedItems) :
                     IF selectedItems[i].item_id = item.id
                     THEN selectedItems'[i] =
                            [selectedItems[i] EXCEPT !.quantity = selectedItems[i].quantity + 1]
                     ELSE selectedItems'[i] = selectedItems[i]
          ELSE /\ Len(selectedItems') = Len(selectedItems) + 1
               /\ \A i \in 1..Len(selectedItems) : selectedItems'[i] = selectedItems[i]
               /\ selectedItems'[Len(selectedItems')].item_id = item.id
               /\ selectedItems'[Len(selectedItems')].quantity = 1
               /\ selectedItems'[Len(selectedItems')].unit_price =
                     (IF item.solo_unit_price = Missing THEN 0
                      ELSE item.solo_unit_price[1])
      ]_vars

\* the same item was added twice to an empty selection: one entry, quantity 2
C4_Witness ==
    /\ result.op = "addSelectedItem"
    /\ Len(selectedItems) = 1
    /\ selectedItems[1].quantity = 2
    /\ selectedItems[1].unit_price = 2

\* C5: when a createTransaction request is rejected, transactions,
\* transactionForm and selectedItems stay as they were, the error reaches the
\* caller and loading is false.
C5_FailedCreateKeepsState ==
    [][ CreateSettles("rejected") =>
          /\ UNCHANGED <<transactions, transactionForm, selectedItems>>
          /\ result'.outcome = "thrown"
          /\ loading' = FALSE
      ]_vars

\* a create failed while a draft, a selection and an earlier record were there
C5_Witness ==
    /\ result.op = "createTransaction"
    /\ result.outcome = "thrown"
    /\ transactionForm = FilledForm
    /\ selectedItems # <<>>
    /\ transactions # <<>>

\* C6: a success response puts the returned record first in transactions,
\* keeps the earlier records behind it, and in the same step sets the form to
\* its defaults and empties the selection; resetForm gives the same form and
\* selection; a response with another status changes none of the three.
C6_SuccessPrependsAndResets ==
    [][ /\ CreateSettles("success") =>
             /\ Len(transactions') = Len(transactions) + 1
             /\ <<transactions'[1]>> = result'.value.rows
             /\ \A i \in 1..Len(transactions) : transactions'[i + 1] = transactions[i]
             /\ transactionForm' = [customer_id |-> Missing, warehouse_id |-> Missing,
                                    payment_type |-> "cash", note |-> "", details |-> <<>>]
             /\ selectedItems' = <<>>
        /\ resetForm =>
             /\ transactionForm' = [customer_id |-> Missing, warehouse_id |-> Missing,
                                    payment_type |-> "cash", note |-> "", details |-> <<>>]
             /\ selectedItems' = <<>>
        /\ (\E status \in OtherStatuses : CreateSettles(status)) =>
             UNCHANGED <<transactions, transactionForm, selectedItems>>
      ]_vars

\* a second, different record was created and stands before the first one
C6_Witness ==
    /\ result.op = "createTransaction"
    /\ result.response = "success"
    /\ Len(transactions) = 2
    /\ transactions[1] # transactions[2]
    /\ <<transactions[1]>> = result.value.rows

\* C7: a rejected request of fetchBranchWarehouses, fetchCustomers or
\* fetchTransactionList is swallowed and leaves its target list empty.
C7_FailedReadEmptiesTarget ==
    result.response = "rejected" =>
        /\ result.outcome = "returned"
        /\ result.op = "fetchBranchWarehouses" => warehouses = <<>>
        /\ result.op = "fetchCustomers" => customers = <<>>
        /\ result.op = "fetchTransactionList" => list = <<>>

\* C8: the stored pagination is the pagination of the response that produced
\* the stored list.
C8_PaginationBelongsToList ==
    (pagination # Missing /\ list # <<>>) =>
        \A i \in 1..Len(list) : pagination[1] = PaginationOf(list[i].page)

\* C9: every call sets loading when it suspends, every continuation and the
\* empty-branch shortcut clear it, and loading is false whenever no call is
\* in flight.
C9_LoadingFalseWhenIdle ==
    /\ [](InFlight = 0 => loading = FALSE)
    /\ [][ (InFlight' > InFlight => loading' = TRUE)
           /\ (InFlight' < InFlight => loading' = FALSE)
           /\ ((\E branchId \in BranchIdInputs : fetchBranchWarehousesEmpty(branchId))
                 => loading' = FALSE) ]_vars

\* a rethrowing operation has failed and nothing is in flight
C9_Witness ==
    /\ InFlight = 0
    /\ result.outcome = "thrown"
    /\ result.op = "searchItems"

\* C10: the continuation of one call clears loading although another call is
\* still in flight, and only a newly issued call sets it again.
C10_CompletionClobbersLoading ==
    [][ /\ (InFlight' < InFlight /\ InFlight' > 0) => loading' = FALSE
        /\ (loading' = TRUE /\ loading = FALSE) => InFlight' > InFlight
      ]_vars

\* fetchCustomers has finished, fetchTransactionList still waits, loading is false
C10_Witness ==
    /\ loading = FALSE
    /\ result.op = "fetchCustomers"
    /\ Awaiting("fetchTransactionList", FALSE) = 1

====
